---- MODULE Spec2Model ----
(***************************************************************************)
(* Model of four parts of the game SDK:                                    *)
(*   - tuningfork::Histogram (src/src/tuningfork/histogram.cpp),           *)
(*     specification Spec;                                                 *)
(*   - swappy::SwappyGL (src/games-frame-pacing/opengl/SwappyGL.cpp) with  *)
(*     the presentation cycle of its SwappyCommon, specification SpecGL;   *)
(*   - swappy::SwappyVk (src/games-frame-pacing/vulkan/SwappyVk.cpp),      *)
(*     specification SpecVk, and SpecVkThreads for calls made by several   *)
(*     threads at once;                                                    *)
(*   - tuningfork::Settings::NumAnnotationCombinations                     *)
(*     (src/games-performance-tuner/core/tuningfork_settings.cpp),         *)
(*     specification SpecSettings.                                         *)
(* Each specification moves the variables of its own part and leaves the   *)
(* other parts as they are before anything is constructed.                 *)
(*                                                                         *)
(* Histogram: sample values, start_ms_ and end_ms_ are doubles in the      *)
(* source.  They are modelled in fixed point: an integer number of ticks,  *)
(* TicksPerMs ticks to the millisecond.  bucket_dt_ms_ is kept as an exact *)
(* fraction [num, den] of ticks, so that the index computation of Add      *)
(* divides as the source does.  std::vector values are functions over      *)
(* 0..size-1, so that indices are the source's indices.                    *)
(***************************************************************************)
EXTENDS Integers, Sequences, FiniteSets, TLC

VARIABLES
    hist,     \* the Histogram object: a record of its data members
    args,     \* the constructor arguments the object was built with
    added,    \* history: the samples passed to Add since construction or the last Clear
    merged,   \* history: number of successful AddCounts since construction or the last Clear
    cleared,  \* history: whether Clear has been called
    freshArgs,\* the constructor arguments that give a new histogram hist's bucket count,
              \*   range and mode; taken at construction and at every Clear
    last,     \* the last call made: [op, arg, ret]
    \* --- SwappyGL ---
    gl,       \* SwappyGL's statics and the members of the instance, with the
              \*   thread_local pointer of getEgl and the EGL objects made and freed
    common,   \* the instance's SwappyCommon (mCommonBase)
    cycle,    \* the render thread inside SwappyGL::swap: its position, and what
              \*   the call has done so far
    now,      \* std::chrono::steady_clock::now(), in clock ticks
    glLast,   \* the last SwappyGL call, when it returned a value without entering
              \*   a presentation cycle: [op, ret, ...]
    \* --- SwappyVk ---
    vk,       \* the members of the SwappyVk singleton, and whether a call has
              \*   gone through a null implementation pointer
    vkThreads,\* the threads that call SwappyVk: for each the call it is in and
              \*   its place in the call
    \* --- tuningfork::Settings ---
    settings  \* aggregation_strategy.annotation_enum_size, and the last value
              \*   NumAnnotationCombinations returned

histVars == <<hist, args, added, merged, cleared, freshArgs, last>>
glVars == <<gl, common, cycle, now, glLast>>
vkVars == <<vk, vkThreads>>
setVars == <<settings>>
vars == <<histVars, glVars, vkVars, setVars>>

---------------------------------------------------------------------------
(* Bounds of the model *)

\* resolution of the fixed-point stand-in for double: ticks per millisecond
TicksPerMs == 20
\* most calls of Add and successful calls of AddCounts since construction or
\* the last Clear
MaxCalls == 4

Ms(x) == x * TicksPerMs

---------------------------------------------------------------------------
(* Constants of histogram.h *)

kDefaultNumBuckets == 200
kAutoSizeNumStdDev == 3
\* 0.1 ms
kAutoSizeMinBucketSizeMs == TicksPerMs \div 10

---------------------------------------------------------------------------
(* std::vector helpers: a vector is a function over 0..size-1 *)

Size(v) == Cardinality(DOMAIN v)

EmptyVec == [i \in {} |-> 0]

Filled(n, x) == [i \in 0..(n - 1) |-> x]

PushBack(v, x) == [i \in 0..Size(v) |-> IF i < Size(v) THEN v[i] ELSE x]

\* sum of v[lo .. hi-1], by halves
RECURSIVE SumRange(_, _, _)
SumRange(v, lo, hi) ==
    IF hi <= lo THEN 0
    ELSE IF hi = lo + 1 THEN v[lo]
    ELSE LET mid == (lo + hi) \div 2
         IN  SumRange(v, lo, mid) + SumRange(v, mid, hi)

Sum(v) == SumRange(v, 0, Size(v))

SumOfSquares(v) == Sum([i \in DOMAIN v |-> v[i] * v[i]])

Max(a, b) == IF a >= b THEN a ELSE b

\* conversion of the quotient a/b (b > 0) to int: truncation toward zero
Trunc(a, b) == IF a >= 0 THEN a \div b ELSE -((-a) \div b)

\* floor(a/b) for b > 0, as the specification's bucket formula has it
Floor(a, b) == a \div b

\* sqrt in ticks: the largest r with r*r <= x, by bisection on lo*lo <= x < hi*hi
\* (x < 2^31, so the root is below 46341)
RECURSIVE SqrtBetween(_, _, _)
SqrtBetween(x, lo, hi) ==
    IF hi - lo <= 1 THEN lo
    ELSE LET mid == (lo + hi) \div 2
         IN  IF mid * mid <= x THEN SqrtBetween(x, mid, hi)
                               ELSE SqrtBetween(x, lo, mid)

sqrt(x) == SqrtBetween(x, 0, IF x < 46340 THEN x + 1 ELSE 46341)

---------------------------------------------------------------------------
(* Histogram::Histogram *)

Histogram(start_ms, end_ms, num_buckets_between, never_bucket) ==
    LET mode == IF never_bucket THEN "EVENTS_ONLY"
                ELSE IF start_ms = 0 /\ end_ms = 0 THEN "AUTO_RANGE"
                ELSE "HISTOGRAM"
        nb   == IF num_buckets_between <= 0 THEN kDefaultNumBuckets
                ELSE num_buckets_between + 2
    IN  [ mode_             |-> mode,
          start_ms_         |-> start_ms,
          end_ms_           |-> end_ms,
          bucket_dt_ms_     |-> [ num |-> end_ms - start_ms,
                                  den |-> IF num_buckets_between <= 0 THEN 1
                                          ELSE num_buckets_between ],
          num_buckets_      |-> nb,
          buckets_          |-> Filled(nb, 0),
          samples_          |-> IF mode = "EVENTS_ONLY" THEN Filled(nb, 0) ELSE EmptyVec,
          count_            |-> 0,
          next_event_index_ |-> 0 ]

\* samples_.capacity() after samples_.reserve(num_buckets_)
Capacity(h) == h.num_buckets_

---------------------------------------------------------------------------
(* Histogram::Add, case Mode::HISTOGRAM *)

\* int i = (dt_ms - start_ms_) / bucket_dt_ms_;   (bucket_dt_ms_ > 0)
BucketIndex(h, dt_ms) ==
    Trunc((dt_ms - h.start_ms_) * h.bucket_dt_ms_.den, h.bucket_dt_ms_.num)

\* the bucket the if/else chain increments
TargetBucket(h, dt_ms) ==
    LET i == BucketIndex(h, dt_ms)
    IN  IF i < 0 THEN 0
        ELSE IF i + 1 >= h.num_buckets_ THEN h.num_buckets_ - 1
        ELSE i + 1

\* a slip: a sample clamped to the first bucket is dropped
AddHistogramModeDropsUnderflow(h, dt_ms) ==
    IF BucketIndex(h, dt_ms) < 0 THEN h
    ELSE [h EXCEPT !.buckets_[TargetBucket(h, dt_ms)] = @ + 1]

AddHistogramMode(h, dt_ms) ==
    [h EXCEPT !.buckets_[TargetBucket(h, dt_ms)] = @ + 1]

---------------------------------------------------------------------------
(* Histogram::Add, case Mode::EVENTS_ONLY *)

\* a slip: the cursor wraps one slot early
AddEventsOnlyWrapsEarly(h, dt_ms) ==
    LET next == h.next_event_index_ + 1
    IN  [h EXCEPT !.samples_[h.next_event_index_] = dt_ms,
                  !.next_event_index_ = IF next >= Size(h.samples_) - 1 THEN 0 ELSE next]

AddEventsOnly(h, dt_ms) ==
    LET next == h.next_event_index_ + 1
    IN  [h EXCEPT !.samples_[h.next_event_index_] = dt_ms,
                  !.next_event_index_ = IF next >= Size(h.samples_) THEN 0 ELSE next]

---------------------------------------------------------------------------
(* Histogram::Add and Histogram::CalcBucketsFromSamples (mutually recursive) *)

RECURSIVE Add(_, _)

RECURSIVE AddAll(_, _, _)
\* for (Sample d: samples_) Add(d);  from index k on
AddAll(h, samples, k) ==
    IF k >= Size(samples) THEN h
    ELSE AddAll(Add(h, samples[k]), samples, k + 1)

\* the range the batch statistics give: start_ms_, end_ms_, bucket_dt_ms_
\* (min_dt and max_dt are computed by the source and never used)
AutoRange(h) ==
    LET n      == Size(h.samples_)
        sum    == Sum(h.samples_)
        sum2   == SumOfSquares(h.samples_)
        mean   == sum \div n
        var0   == (sum2 \div n) - mean * mean
        var    == IF var0 < 0 THEN 0 ELSE var0
        stddev == sqrt(var)
        start1 == Max(mean - kAutoSizeNumStdDev * stddev, 0)
        end1   == mean + kAutoSizeNumStdDev * stddev
        dt1    == [num |-> end1 - start1, den |-> h.num_buckets_ - 2]
        w      == kAutoSizeMinBucketSizeMs * (h.num_buckets_ - 2)
    IN  IF dt1.num < kAutoSizeMinBucketSizeMs * dt1.den
        THEN [ start |-> mean - w \div 2, end |-> mean + w \div 2,
               dt |-> [num |-> kAutoSizeMinBucketSizeMs, den |-> 1] ]
        ELSE [ start |-> start1, end |-> end1, dt |-> dt1 ]

\* a slip: the buckets are zeroed before the replay
CalcBucketsFromSamplesResetsBuckets(h) ==
    IF h.mode_ # "AUTO_RANGE" THEN h
    ELSE LET r  == AutoRange(h)
             h1 == [h EXCEPT !.start_ms_ = r.start, !.end_ms_ = r.end,
                             !.bucket_dt_ms_ = r.dt,
                             !.buckets_ = Filled(h.num_buckets_, 0),
                             !.mode_ = "HISTOGRAM", !.count_ = 0]
         IN  AddAll(h1, h1.samples_, 0)

\* a slip: the replay starts at the second buffered sample
CalcBucketsFromSamplesSkipsFirst(h) ==
    IF h.mode_ # "AUTO_RANGE" THEN h
    ELSE LET r  == AutoRange(h)
             h1 == [h EXCEPT !.start_ms_ = r.start, !.end_ms_ = r.end,
                             !.bucket_dt_ms_ = r.dt,
                             !.mode_ = "HISTOGRAM", !.count_ = 0]
         IN  AddAll(h1, h1.samples_, 1)

CalcBucketsFromSamples(h) ==
    IF h.mode_ # "AUTO_RANGE" THEN h
    ELSE LET r  == AutoRange(h)
             h1 == [h EXCEPT !.start_ms_ = r.start, !.end_ms_ = r.end,
                             !.bucket_dt_ms_ = r.dt,
                             !.mode_ = "HISTOGRAM", !.count_ = 0]
         IN  AddAll(h1, h1.samples_, 0)

\* case Mode::AUTO_RANGE
AddAutoRange(h, dt_ms) ==
    LET pushed == [h EXCEPT !.samples_ = PushBack(@, dt_ms)]
    IN  IF Size(pushed.samples_) = Capacity(pushed)
        THEN CalcBucketsFromSamples(pushed)
        ELSE pushed

Add(h, dt_ms) ==
    LET h1 == CASE h.mode_ = "HISTOGRAM"   -> AddHistogramMode(h, dt_ms)
                [] h.mode_ = "AUTO_RANGE"  -> AddAutoRange(h, dt_ms)
                [] h.mode_ = "EVENTS_ONLY" -> AddEventsOnly(h, dt_ms)
    IN  [h1 EXCEPT !.count_ = @ + 1]

---------------------------------------------------------------------------
(* Histogram::Clear *)

\* a slip: the cleared histogram goes back to collecting samples
ClearRevertsMode(h) ==
    IF h.mode_ = "EVENTS_ONLY"
    THEN [h EXCEPT !.buckets_ = Filled(h.num_buckets_, 0),
                   !.samples_ = Filled(Size(h.samples_), 0),
                   !.next_event_index_ = 0,
                   !.count_ = 0]
    ELSE [h EXCEPT !.buckets_ = Filled(h.num_buckets_, 0),
                   !.samples_ = EmptyVec,
                   !.mode_ = "AUTO_RANGE",
                   !.count_ = 0]

\* a slip: the buffered samples are kept
ClearKeepsSamples(h) ==
    IF h.mode_ = "EVENTS_ONLY"
    THEN [h EXCEPT !.buckets_ = Filled(h.num_buckets_, 0),
                   !.samples_ = Filled(Size(h.samples_), 0),
                   !.next_event_index_ = 0,
                   !.count_ = 0]
    ELSE [h EXCEPT !.buckets_ = Filled(h.num_buckets_, 0),
                   !.count_ = 0]

\* a slip: the write cursor is not reset
ClearKeepsCursor(h) ==
    IF h.mode_ = "EVENTS_ONLY"
    THEN [h EXCEPT !.buckets_ = Filled(h.num_buckets_, 0),
                   !.samples_ = Filled(Size(h.samples_), 0),
                   !.count_ = 0]
    ELSE [h EXCEPT !.buckets_ = Filled(h.num_buckets_, 0),
                   !.samples_ = EmptyVec,
                   !.count_ = 0]

Clear(h) ==
    IF h.mode_ = "EVENTS_ONLY"
    THEN [h EXCEPT !.buckets_ = Filled(h.num_buckets_, 0),
                   !.samples_ = Filled(Size(h.samples_), 0),
                   !.next_event_index_ = 0,
                   !.count_ = 0]
    ELSE [h EXCEPT !.buckets_ = Filled(h.num_buckets_, 0),
                   !.samples_ = EmptyVec,
                   !.count_ = 0]

---------------------------------------------------------------------------
(* Histogram::operator== *)

OpEq(h1, h2) == h1.buckets_ = h2.buckets_ /\ h1.samples_ = h2.samples_

---------------------------------------------------------------------------
(* Histogram::AddCounts: the histogram afterwards and the value returned *)

\* a slip: the length is checked after the common prefix has been added
AddCountsPartial(h, counts) ==
    IF Size(counts) # Size(h.buckets_)
    THEN [ h   |-> [h EXCEPT !.buckets_ =
                       [i \in DOMAIN h.buckets_ |->
                           IF i \in DOMAIN counts THEN h.buckets_[i] + counts[i]
                           ELSE h.buckets_[i]]],
           ret |-> "TFERROR_BAD_PARAMETER" ]
    ELSE [ h   |-> [h EXCEPT !.buckets_ =
                       [i \in DOMAIN h.buckets_ |-> h.buckets_[i] + counts[i]]],
           ret |-> "TFERROR_OK" ]

\* a slip: the counts are assigned instead of added
AddCountsOverwrites(h, counts) ==
    IF Size(counts) # Size(h.buckets_)
    THEN [ h |-> h, ret |-> "TFERROR_BAD_PARAMETER" ]
    ELSE [ h   |-> [h EXCEPT !.buckets_ = [i \in DOMAIN h.buckets_ |-> counts[i]]],
           ret |-> "TFERROR_OK" ]

AddCounts(h, counts) ==
    IF Size(counts) # Size(h.buckets_)
    THEN [ h |-> h, ret |-> "TFERROR_BAD_PARAMETER" ]
    ELSE [ h   |-> [h EXCEPT !.buckets_ =
                       [i \in DOMAIN h.buckets_ |-> h.buckets_[i] + counts[i]]],
           ret |-> "TFERROR_OK" ]

---------------------------------------------------------------------------
(* The parts of the program before anything is constructed *)

\* no Histogram object
NoHistogram ==
    /\ hist = [mode_ |-> "none"]
    /\ args = <<>>
    /\ added = <<>>
    /\ merged = 0
    /\ cleared = FALSE
    /\ freshArgs = <<>>
    /\ last = [op |-> "none", arg |-> "none", ret |-> "void"]

\* a null pointer
nullptr == 0

\* a map with no entry
EmptyMap == [k \in {} |-> nullptr]

\* std::unique_ptr<SwappyGL> SwappyGL::sInstance is empty; the members are
\* those of no object.  egl is the thread_local pointer of getEgl on the render
\* thread; made counts the EGL objects created, freed holds the destroyed ones.
NoSwappyGLInstance ==
    [ sInstance        |-> FALSE,
      mEnableSwappy    |-> FALSE,
      mEgl             |-> nullptr,
      mFrameStatistics |-> FALSE,
      egl              |-> nullptr,
      made             |-> 0,
      freed            |-> {} ]

\* no SwappyCommon object
NoSwappyCommon ==
    [ valid            |-> FALSE,
      tracers          |-> <<>>,
      presentationTime |-> 0,
      swapIntervalNS   |-> 0,
      fenceTimeout     |-> 0,
      skippedFrames    |-> 0,
      incompleteFrames |-> 0 ]

\* the render thread is outside SwappyGL::swap
\* pc: the statement of SwappyGL::swap / swapInternal the thread is at ("idle":
\* it has not called swap, "return": it has returned from swap); phase: its
\* place inside SwappyCommon::onPreSwap; events: the tracer callbacks and
\* platform swaps of the call, in the order made; result: what the platform
\* swapBuffers returned; ret: what swap returned; fenceTimedOut: the wait ended
\* by the timeout; invalidEglUse: the call has used an EGL pointer that is null
\* or points to a destroyed object; displayTimings: the sfOffset that
\* setPresentationTime has just read, and requested: whether it has called the
\* platform, both until the next statement is done
OutsideSwap ==
    [ pc               |-> "idle",
      phase            |-> "none",
      events           |-> <<>>,
      swapBuffersCalls |-> 0,
      result           |-> FALSE,
      ret              |-> FALSE,
      nowAtStart       |-> 0,
      fenceTimedOut    |-> FALSE,
      invalidEglUse    |-> FALSE,
      displayTimings   |-> {},
      requested        |-> FALSE ]

\* no call that returns a value; eglLoads, isValid and disableProp are what a
\* constructing init found: whether EGL::create gave an object, whether
\* mCommonBase.isValid(), whether the disable system property is set
NoResult ==
    [op |-> "none", ret |-> FALSE,
     eglLoads |-> TRUE, isValid |-> TRUE, disableProp |-> FALSE]

NoSwappyGL ==
    /\ gl = NoSwappyGLInstance
    /\ common = NoSwappyCommon
    /\ cycle = OutsideSwap
    /\ now = 0
    /\ glLast = NoResult

\* the SwappyVk singleton as constructed: no swapchain, no queue, no tracer, no
\* physical device looked at.  nullDereferenced: a call has used a null
\* implementation pointer; crashed: the process stopped there.
EmptySwappyVk ==
    [ perSwapchainImplementation                |-> EmptyMap,
      perQueueFamilyIndex                       |-> EmptyMap,
      doesPhysicalDeviceHaveGoogleDisplayTiming |-> EmptyMap,
      tracer_list                               |-> <<>>,
      nullDereferenced                          |-> FALSE,
      crashed                                   |-> FALSE ]

\* the threads that call SwappyVk
Threads == {1, 2}

\* a thread that is in no SwappyVk call.  call: the entry point it is in;
\* swapchain: the call's swapchain; pc: its place in the call ("map": in a
\* lookup, insert, erase or iteration of perSwapchainImplementation,
\* "tracer_list": in tracer_list); lock: it holds tracer_list_lock; raced:
\* another thread was in the map at the same time and one of the two writes
OutsideSwappyVk ==
    [call |-> "none", swapchain |-> nullptr, pc |-> "outside",
     lock |-> FALSE, raced |-> FALSE]

NoSwappyVk ==
    /\ vk = EmptySwappyVk
    /\ vkThreads = [t \in Threads |-> OutsideSwappyVk]

\* no annotation of the settings read yet, NumAnnotationCombinations not called
NoSettings == settings = [annotation_enum_size |-> <<>>, called |-> FALSE, ret |-> 0]

---------------------------------------------------------------------------
(* The calls made on one Histogram object *)

\* constructor arguments: <<start_ms, end_ms, num_buckets_between, never_bucket>>
\* (a HISTOGRAM-mode range has end_ms > start_ms, as the constructor demands)
Configs ==
    { <<Ms(0), Ms(20), 5, FALSE>>,    \* HISTOGRAM, 7 buckets of 4 ms
      <<Ms(2), Ms(10), 2, FALSE>>,    \* HISTOGRAM, 4 buckets of 4 ms from 2 ms
      <<Ms(2), Ms(22), 0, FALSE>>,    \* HISTOGRAM, default bucket count
      <<Ms(0), Ms(0),  1, FALSE>>,    \* AUTO_RANGE, 3 buckets
      <<Ms(0), Ms(0),  2, FALSE>>,    \* AUTO_RANGE, 4 buckets
      <<Ms(0), Ms(0),  1, TRUE>> }    \* EVENTS_ONLY, 3 slots

Construct(a) == Histogram(a[1], a[2], a[3], a[4])

\* samples passed to Add, chosen for the mode the histogram is constructed in:
\* below, inside, at the end of and beyond the range (HISTOGRAM); equal, spread
\* and close samples (AUTO_RANGE); more distinct samples than slots (EVENTS_ONLY)
Samples(a) ==
    CASE Construct(a).mode_ = "HISTOGRAM" ->
            { Ms(-5), Ms(-1), Ms(3), (199 * TicksPerMs) \div 10, Ms(20), Ms(100) }
      [] Construct(a).mode_ = "AUTO_RANGE" ->
            { Ms(3), Ms(4), Ms(100) }
      [] Construct(a).mode_ = "EVENTS_ONLY" ->
            { Ms(1), Ms(2), Ms(3), Ms(4) }

\* vectors passed to AddCounts: one of the histogram's length, one of 5 elements
CountVectors(h) ==
    { Filled(h.num_buckets_, 1), [i \in 0..4 |-> IF i = 2 THEN 2 ELSE 1] }

\* the constructor arguments of a new histogram with h's bucket count, range
\* and mode: the arguments a that h was built with while h is in the mode it
\* was constructed in, and the derived range once h has left AUTO_RANGE
FreshLike(h, a) ==
    IF h.mode_ = Construct(a).mode_ THEN a
    ELSE <<h.start_ms_, h.end_ms_, h.num_buckets_ - 2, FALSE>>

Init ==
    /\ args \in Configs
    /\ hist = Construct(args)
    /\ added = <<>>
    /\ merged = 0
    /\ cleared = FALSE
    /\ freshArgs = args
    /\ last = [op |-> "Histogram", arg |-> args, ret |-> "void"]
    /\ NoSwappyGL
    /\ NoSwappyVk
    /\ NoSettings

DoAdd ==
    \E dt_ms \in Samples(args) :
        /\ Len(added) + merged < MaxCalls
        /\ hist' = Add(hist, dt_ms)
        /\ added' = Append(added, dt_ms)
        /\ last' = [op |-> "Add", arg |-> dt_ms, ret |-> "void"]
        /\ UNCHANGED <<args, merged, cleared, freshArgs, glVars, vkVars, setVars>>

DoClear ==
    /\ hist' = Clear(hist)
    /\ added' = <<>>
    /\ merged' = 0
    /\ cleared' = TRUE
    /\ freshArgs' = FreshLike(hist', args)
    /\ last' = [op |-> "Clear", arg |-> "none", ret |-> "void"]
    /\ UNCHANGED <<args, glVars, vkVars, setVars>>

DoAddCounts ==
    \E counts \in CountVectors(hist) :
        LET r == AddCounts(hist, counts)
        IN  /\ r.ret = "TFERROR_OK" => Len(added) + merged < MaxCalls
            /\ hist' = r.h
            /\ merged' = IF r.ret = "TFERROR_OK" THEN merged + 1 ELSE merged
            /\ last' = [op |-> "AddCounts", arg |-> counts, ret |-> r.ret]
            /\ UNCHANGED <<args, added, cleared, freshArgs, glVars, vkVars, setVars>>

Next == DoAdd \/ DoClear \/ DoAddCounts

Spec == Init /\ [][Next]_vars

---------------------------------------------------------------------------
(* Vocabulary of the properties *)

\* the mode the constructor gave the histogram
ConstructedMode == Construct(args).mode_

\* this step is a call of Add; its argument is the last element of added'
AddStep == last'.op = "Add" /\ Len(added') = Len(added) + 1

AddedSample == added'[Len(added')]

\* buckets with exactly bucket b one higher
Incremented(buckets, b) == [buckets EXCEPT ![b] = @ + 1]

Min(a, b) == IF a <= b THEN a ELSE b

---------------------------------------------------------------------------
\* C1: for a histogram constructed in HISTOGRAM mode, after any sequence of
\* Add calls (with no AddCounts since construction or the last Clear) the sum
\* of all bucket counts equals count.
C1_SumEqualsCount ==
    (ConstructedMode = "HISTOGRAM" /\ merged = 0)
        => Sum(hist.buckets_) = hist.count_

\* a HISTOGRAM-mode histogram that has taken the full number of samples, among
\* them one clamped to the first bucket and one clamped to the last
C1_Witness ==
    /\ ConstructedMode = "HISTOGRAM"
    /\ merged = 0
    /\ hist.count_ = MaxCalls
    /\ hist.buckets_[0] > 0
    /\ hist.buckets_[hist.num_buckets_ - 1] > 0

\* C2: in HISTOGRAM mode, Add(s) for every sample s strictly below start
\* increments bucket 0 and no other bucket, also when s is less than one
\* bucket width below start.
C2_BelowStartToBucket0 ==
    [][ (AddStep /\ hist.mode_ = "HISTOGRAM" /\ AddedSample < hist.start_ms_)
            => hist'.buckets_ = Incremented(hist.buckets_, 0) ]_vars

\* C3: in HISTOGRAM mode, Add(s) for every sample s >= start increments exactly
\* the bucket min(floor((s - start) / bucket_width) + 1, num_buckets - 1); every
\* s >= end lands in the last bucket and every s in [start, end) in an inner
\* bucket 1 .. num_buckets - 2.
C3_AtOrAboveStart ==
    [][ (AddStep /\ hist.mode_ = "HISTOGRAM" /\ AddedSample >= hist.start_ms_)
            => LET s == AddedSample
                   b == Min(Floor((s - hist.start_ms_) * hist.bucket_dt_ms_.den,
                                  hist.bucket_dt_ms_.num) + 1,
                            hist.num_buckets_ - 1)
               IN  /\ hist'.buckets_ = Incremented(hist.buckets_, b)
                   /\ s >= hist.end_ms_ => b = hist.num_buckets_ - 1
                   /\ s < hist.end_ms_ => b \in 1..(hist.num_buckets_ - 2) ]_vars

\* C4: in every mode, count equals the number of samples added by Add since
\* construction or the last Clear, also right after the Add that fills an
\* AUTO_RANGE histogram's buffer.
C4_CountEqualsAdds == hist.count_ = Len(added)

\* C5: the Add that fills an AUTO_RANGE histogram's buffer (no AddCounts
\* before it) switches the mode to HISTOGRAM, and right afterwards the bucket
\* counts sum to the number of buffered samples, each buffered sample being
\* counted once, in the bucket of the derived range it belongs to.
C5_TransitionCountsEverySample ==
    [][ (AddStep /\ hist.mode_ = "AUTO_RANGE" /\ merged = 0
            /\ Size(hist.samples_) + 1 = Capacity(hist))
            => /\ hist'.mode_ = "HISTOGRAM"
               /\ hist'.samples_ = PushBack(hist.samples_, AddedSample)
               /\ Sum(hist'.buckets_) = Size(hist'.samples_)
               /\ \A b \in DOMAIN hist'.buckets_ :
                     hist'.buckets_[b] =
                        Cardinality({ k \in DOMAIN hist'.samples_ :
                                        TargetBucket(hist', hist'.samples_[k]) = b }) ]_vars

\* the state right after the transition, the samples spread over several buckets
C5_Witness ==
    /\ ConstructedMode = "AUTO_RANGE"
    /\ hist.mode_ = "HISTOGRAM"
    /\ last.op = "Add"
    /\ merged = 0
    /\ Len(added) = hist.num_buckets_
    /\ Size(hist.samples_) = hist.num_buckets_
    /\ \E b \in DOMAIN hist.buckets_ : hist.buckets_[b] = 1

\* C6: the mode changes only from AUTO_RANGE to HISTOGRAM; once it is
\* HISTOGRAM, no Add, Clear or AddCounts changes it again, and start, end and
\* bucket width stay as they are.
C6_ModeChangesOnce ==
    [][ /\ hist'.mode_ # hist.mode_
            => (hist.mode_ = "AUTO_RANGE" /\ hist'.mode_ = "HISTOGRAM")
        /\ hist.mode_ = "HISTOGRAM"
            => /\ hist'.mode_ = "HISTOGRAM"
               /\ hist'.start_ms_ = hist.start_ms_
               /\ hist'.end_ms_ = hist.end_ms_
               /\ hist'.bucket_dt_ms_ = hist.bucket_dt_ms_ ]_vars

\* a histogram that left AUTO_RANGE, was cleared afterwards (its buffer is
\* empty) and has since merged counts and taken samples
C6_Witness ==
    /\ ConstructedMode = "AUTO_RANGE"
    /\ hist.mode_ = "HISTOGRAM"
    /\ Size(hist.samples_) = 0
    /\ merged > 0
    /\ Len(added) > 0

\* the positions 0 .. k-1 of the samples added that fall on slot j of c slots
PositionsOnSlot(k, c, j) == { p \in 0..(k - 1) : p % c = j }

Newest(ps) == CHOOSE p \in ps : \A q \in ps : q <= p

\* C7: in EVENTS_ONLY mode with c = num_buckets slots, after k Add calls since
\* construction or the last Clear the write cursor is k mod c (below c), slot
\* j holds the newest sample whose position is j mod c (0 if there is none),
\* count is k, and no Add changes a bucket.
C7_EventsRing ==
    /\ [](hist.mode_ = "EVENTS_ONLY"
            => LET c == hist.num_buckets_
                   k == Len(added)
               IN  /\ Size(hist.samples_) = c
                   /\ hist.next_event_index_ = k % c
                   /\ hist.next_event_index_ < c
                   /\ \A j \in 0..(c - 1) :
                         hist.samples_[j] =
                            IF PositionsOnSlot(k, c, j) = {} THEN 0
                            ELSE added[Newest(PositionsOnSlot(k, c, j)) + 1]
                   /\ hist.count_ = k)
    /\ [][ (AddStep /\ hist.mode_ = "EVENTS_ONLY")
              => hist'.buckets_ = hist.buckets_ ]_vars

\* Add(1), Add(2), Add(3), Add(4) on 3 slots: the buffer is [4, 2, 3], count 4
C7_Witness ==
    /\ hist.mode_ = "EVENTS_ONLY"
    /\ hist.num_buckets_ = 3
    /\ added = <<Ms(1), Ms(2), Ms(3), Ms(4)>>
    /\ hist.samples_ = [j \in 0..2 |-> IF j = 0 THEN Ms(4) ELSE Ms(j + 1)]
    /\ hist.count_ = 4
    /\ hist.next_event_index_ = 1

\* C8: AddCounts with a vector whose length differs from the bucket count
\* returns the bad-parameter error and leaves the whole histogram as it was.
C8_BadLengthNoMutation ==
    [][ (last'.op = "AddCounts" /\ Size(last'.arg) # Size(hist.buckets_))
            => /\ last'.ret = "TFERROR_BAD_PARAMETER"
               /\ hist' = hist ]_vars

\* a 5-element vector refused by a 7-bucket histogram that holds counts
C8_Witness ==
    /\ last.op = "AddCounts"
    /\ last.ret = "TFERROR_BAD_PARAMETER"
    /\ Size(last.arg) = 5
    /\ Size(hist.buckets_) = 7
    /\ hist.count_ > 0
    /\ Sum(hist.buckets_) > 0

\* the histogram after Add of seq[k], seq[k+1], ... in turn
RECURSIVE Replay(_, _, _)
Replay(h, seq, k) ==
    IF k > Len(seq) THEN h ELSE Replay(Add(h, seq[k]), seq, k + 1)

\* C9: for a histogram in HISTOGRAM mode or in AUTO_RANGE mode, Clear followed
\* by Add calls alone gives the bucket counts, count, sample buffer and
\* operator== result of a newly constructed histogram with the same range and
\* mode given the same Add calls.
C9_ClearThenAddsLikeFresh ==
    (cleared /\ merged = 0 /\ Construct(freshArgs).mode_ # "EVENTS_ONLY")
        => LET r == Replay(Construct(freshArgs), added, 1)
           IN  /\ hist.buckets_ = r.buckets_
               /\ hist.count_ = r.count_
               /\ hist.samples_ = r.samples_
               /\ OpEq(hist, r)

\* a histogram that had left AUTO_RANGE before it was cleared and has taken
\* the full number of samples since
C9_Witness ==
    /\ cleared
    /\ merged = 0
    /\ ConstructedMode = "AUTO_RANGE"
    /\ Construct(freshArgs).mode_ = "HISTOGRAM"
    /\ Len(added) = MaxCalls
    /\ \E b \in DOMAIN hist.buckets_ : hist.buckets_[b] > 0 /\ hist.buckets_[b] < MaxCalls

\* C10: right after Clear every bucket count and count are 0; in EVENTS_ONLY
\* mode the buffer still has num_buckets slots, all 0, and the write cursor is
\* 0; in the other modes the sample buffer is empty.
C10_AfterClear ==
    last.op = "Clear"
        => /\ hist.buckets_ = Filled(hist.num_buckets_, 0)
           /\ hist.count_ = 0
           /\ hist.mode_ = "EVENTS_ONLY"
                => /\ hist.samples_ = Filled(hist.num_buckets_, 0)
                   /\ hist.next_event_index_ = 0
           /\ hist.mode_ # "EVENTS_ONLY" => Size(hist.samples_) = 0

\* a cleared EVENTS_ONLY histogram
C10_Witness ==
    /\ last.op = "Clear"
    /\ hist.mode_ = "EVENTS_ONLY"
    /\ cleared

---------------------------------------------------------------------------
\* the histogram A that received the first k of the samples, the histogram B
\* that received the rest, both constructed like hist, and A.AddCounts(B.buckets_)
MergeA(k) == Replay(Construct(freshArgs), SubSeq(added, 1, k), 1)
MergeB(k) == Replay(Construct(freshArgs), SubSeq(added, k + 1, Len(added)), 1)
Merge(k) == AddCounts(MergeA(k), MergeB(k).buckets_)

\* C11: for two HISTOGRAM-mode histograms A and B with the same range and
\* bucket count, A given the samples S1 and B the samples S2,
\* A.AddCounts(B's buckets) returns OK and leaves A's buckets equal, bucket by
\* bucket, to those of one histogram that was given S1 followed by S2; each
\* bucket of A goes up by exactly the matching element.
C11_AddCountsMerges ==
    (hist.mode_ = "HISTOGRAM" /\ Construct(freshArgs).mode_ = "HISTOGRAM" /\ merged = 0)
        => \A k \in 0..Len(added) :
              LET A == MergeA(k).buckets_
                  B == MergeB(k).buckets_
                  r == Merge(k)
              IN  /\ r.ret = "TFERROR_OK"
                  /\ r.h.buckets_ = hist.buckets_
                  /\ r.h.buckets_ = [i \in DOMAIN A |-> A[i] + B[i]]

\* a HISTOGRAM-mode histogram given the full number of samples, which split
\* into two halves that each put a sample where the other half put one too
C11_Witness ==
    /\ hist.mode_ = "HISTOGRAM"
    /\ Construct(freshArgs).mode_ = "HISTOGRAM"
    /\ merged = 0
    /\ Len(added) = MaxCalls
    /\ \E k \in 1..(Len(added) - 1) :
          LET A == MergeA(k).buckets_
              B == MergeB(k).buckets_
          IN  /\ Merge(k).ret = "TFERROR_OK"
              /\ \E i \in DOMAIN A : A[i] > 0 /\ B[i] > 0

\* the number of the buffered samples of h that belong to bucket i
Placed(h, i) ==
    Cardinality({ k \in DOMAIN h.samples_ : TargetBucket(h, h.samples_[k]) = i })

\* C29: AddCounts changes bucket counts only: whether it returns OK or the
\* bad-parameter error, count, the sample buffer, the write cursor, the mode,
\* the bucket count and start, end and bucket width stay as they were; and the
\* counts merged into a histogram still in AUTO_RANGE are kept by the later
\* transition to HISTOGRAM, which adds the buffered samples on top of them.
C29_AddCountsOnlyBuckets ==
    [][ /\ last'.op = "AddCounts"
              => hist' = [hist EXCEPT !.buckets_ = hist'.buckets_]
        /\ (AddStep /\ hist.mode_ = "AUTO_RANGE" /\ hist'.mode_ = "HISTOGRAM")
              => hist'.buckets_ =
                    [i \in DOMAIN hist.buckets_ |-> hist.buckets_[i] + Placed(hist', i)]
      ]_vars

\* a histogram that has left AUTO_RANGE with merged counts in its buckets
C29_Witness ==
    /\ Construct(args).mode_ = "AUTO_RANGE"
    /\ hist.mode_ = "HISTOGRAM"
    /\ last.op = "Add"
    /\ merged > 0
    /\ ~cleared
    /\ Sum(hist.buckets_) = Size(hist.buckets_) + Size(hist.samples_)

\* C12: in every reachable state of a histogram in HISTOGRAM mode,
\* bucket_width * (num_buckets - 2) = end - start, for every constructor
\* argument combination (num_buckets_between <= 0 included) and after the
\* AUTO_RANGE transition.
C12_WidthTimesInnerBuckets ==
    hist.mode_ = "HISTOGRAM"
        => hist.bucket_dt_ms_.num * (hist.num_buckets_ - 2)
              = (hist.end_ms_ - hist.start_ms_) * hist.bucket_dt_ms_.den

---------------------------------------------------------------------------
(* SwappyGL: bounds and inputs *)

\* the display's refresh period, in clock ticks
RefreshPeriod == 2
\* the clock stops at MaxTime
MaxTime == 6
\* most EGL objects created, over all SwappyGL::init calls
MaxInits == 2
\* most tracers registered at a time
MaxTracers == 2

\* the SwappyTracer structs the application passes, each standing for its
\* callbacks and user data
Tracers == {1, 2}
\* Settings::getDisplayTimings().sfOffset, in clock ticks
SfOffsets == {0, 1}
\* the swap intervals, in refresh periods
SwapMultiples == {1, 2}
\* the fence timeouts the application sets, in clock ticks; the longest is
\* the one a new SwappyCommon has
FenceTimeouts == {2, 1}
DefaultFenceTimeout == CHOOSE t \in FenceTimeouts : \A u \in FenceTimeouts : u <= t

\* t + d on the model's clock
Later(t, d) == Min(t + d, MaxTime)

---------------------------------------------------------------------------
(* SwappyCommon, as the scheduler algorithm describes it *)

\* the SwappyCommon of a new SwappyGL: no tracer, the first frame due one swap
\* interval from now, the default fence timeout
SwappyCommon(isValid, multiple, t) ==
    [ valid            |-> isValid,
      tracers          |-> <<>>,
      presentationTime |-> t,
      swapIntervalNS   |-> multiple * RefreshPeriod,
      fenceTimeout     |-> DefaultFenceTimeout,
      skippedFrames    |-> 0 ]

\* the callbacks of one phase: every registered tracer, in registration order
Callbacks(c, phase) == [i \in 1..Len(c.tracers) |-> <<phase, c.tracers[i]>>]

\* a slip: the deadline may stop at now
RECURSIVE CatchUpToNow(_, _, _)
CatchUpToNow(p, t, n) ==
    IF p >= t THEN [presentationTime |-> p, skipped |-> n]
    ELSE CatchUpToNow(p + RefreshPeriod, t, n + 1)

\* skipped-frame catch-up: p goes forward by whole refresh periods until it is
\* after t; n counts the periods
RECURSIVE CatchUp(_, _, _)
CatchUp(p, t, n) ==
    IF p > t THEN [presentationTime |-> p, skipped |-> n]
    ELSE CatchUp(p + RefreshPeriod, t, n + 1)

\* step 5: the deadline of the coming frame
ComputePresentationTime(c, t) ==
    LET r == CatchUp(c.presentationTime + c.swapIntervalNS, t, 0)
    IN  [c EXCEPT !.presentationTime = r.presentationTime,
                  !.skippedFrames = @ + r.skipped]

\* the place in onPreSwap after phase
onPreSwap(phase) ==
    CASE phase = "preWait"  -> "wait"
      [] phase = "wait"     -> "postWait"
      [] phase = "postWait" -> "preSwap"
      [] phase = "preSwap"  -> "none"

addTracerCallbacks(c, t) == [c EXCEPT !.tracers = Append(@, t)]

removeTracerCallbacks(c, t) ==
    [c EXCEPT !.tracers = SelectSeq(@, LAMBDA x : x # t)]

---------------------------------------------------------------------------
(* SwappyGL *)

\* EGL *SwappyGL::getEgl(): the thread_local pointer is set from mEgl while it
\* is null, and returned
getEgl(g) == IF g.egl = nullptr THEN [g EXCEPT !.egl = g.mEgl] ELSE g

\* the pointer getEgl returns points to an EGL object that exists
EglLive(g) == getEgl(g).egl # nullptr /\ getEgl(g).egl \notin g.freed

\* a slip: an instance that is not enabled is not kept in sInstance
SwappyGLCtorDropsDisabled(g, eglLoads, isValid, disableProp, statsSupported) ==
    LET made == [g EXCEPT !.sInstance = eglLoads /\ isValid /\ ~disableProp,
                          !.mFrameStatistics = FALSE,
                          !.mEgl = IF eglLoads THEN g.made + 1 ELSE nullptr,
                          !.made = IF eglLoads THEN @ + 1 ELSE @]
    IN  IF made.mEgl = nullptr THEN [made EXCEPT !.mEnableSwappy = FALSE]
        ELSE IF ~isValid THEN [made EXCEPT !.mEnableSwappy = FALSE]
        ELSE IF disableProp THEN [made EXCEPT !.mEnableSwappy = FALSE]
        ELSE [made EXCEPT !.mEnableSwappy = TRUE,
                          !.mFrameStatistics = statsSupported]

\* SwappyGL::SwappyGL: EGL::create gives an object or null; then
\* mCommonBase.isValid() and the disable system property decide mEnableSwappy
SwappyGLCtor(g, eglLoads, isValid, disableProp, statsSupported) ==
    LET made == [g EXCEPT !.sInstance = TRUE,
                          !.mFrameStatistics = FALSE,
                          !.mEgl = IF eglLoads THEN g.made + 1 ELSE nullptr,
                          !.made = IF eglLoads THEN @ + 1 ELSE @]
    IN  IF made.mEgl = nullptr THEN [made EXCEPT !.mEnableSwappy = FALSE]
        ELSE IF ~isValid THEN [made EXCEPT !.mEnableSwappy = FALSE]
        ELSE IF disableProp THEN [made EXCEPT !.mEnableSwappy = FALSE]
        ELSE [made EXCEPT !.mEnableSwappy = TRUE,
                          !.mFrameStatistics = statsSupported]

\* a slip: onPostSwap is called before the platform swap
swapInternalPostSwapFirst(pc, ok) ==
    CASE pc = "insertSyncFence"     -> "onPreSwap"
      [] pc = "onPreSwap"           -> "setPresentationTime"
      [] pc = "setPresentationTime" -> IF ok THEN "onPostSwap" ELSE "return"
      [] pc = "onPostSwap"          -> "swapBuffers"
      [] pc = "swapBuffers"         -> "return"

\* SwappyGL::swapInternal: the statement after the one at pc.  ok is the
\* result of setPresentationTime.
swapInternal(pc, ok) ==
    CASE pc = "insertSyncFence"     -> "onPreSwap"
      [] pc = "onPreSwap"           -> "setPresentationTime"
      [] pc = "setPresentationTime" -> IF ok THEN "swapBuffers" ELSE "return"
      [] pc = "swapBuffers"         -> "onPostSwap"
      [] pc = "onPostSwap"          -> "return"

\* SwappyGL::swap on an instance: swapInternal when enabled, else the
\* platform swap alone
swap(g) == IF g.mEnableSwappy THEN "insertSyncFence" ELSE "passthrough"

\* a slip: the deadline may be a tick nearer before the call is skipped
TooCloseToVsyncLate(c, t, sfOffset) ==
    (c.presentationTime - t) < (RefreshPeriod - sfOffset - 1)

\* bool SwappyGL::setPresentationTime: TRUE without a platform call when the
\* deadline is nearer than a refresh period less sfOffset
TooCloseToVsync(c, t, sfOffset) == (c.presentationTime - t) < (RefreshPeriod - sfOffset)

---------------------------------------------------------------------------
(* The calls made on SwappyGL by the render thread *)

\* the thread is not inside swap
Outside == cycle.pc \in {"idle", "return"}

\* a call through the pointer getEgl returns, the thread being cy after it.
\* Through a null pointer or a pointer to a destroyed object the call is
\* undefined: the thread goes on as after a call of an existing object
\* (Through), or the process stops (Crashes).
Through(cy) ==
    /\ gl' = getEgl(gl)
    /\ cycle' = [cy EXCEPT !.invalidEglUse = @ \/ ~EglLive(gl),
                           !.ret = IF cy.pc = "return" THEN @ ELSE FALSE]

Crashes ==
    /\ ~EglLive(gl)
    /\ gl' = getEgl(gl)
    /\ cycle' = [cycle EXCEPT !.pc = "crashed", !.invalidEglUse = TRUE]
    /\ UNCHANGED <<common, now, glLast>>

GLInit ==
    /\ Outside
    /\ IF gl.sInstance
       THEN /\ glLast' = [NoResult EXCEPT !.op = "init twice"]
            /\ cycle' = OutsideSwap
            /\ UNCHANGED <<gl, common, now>>
       ELSE \E eglLoads, isValid, disableProp, statsSupported \in BOOLEAN :
            \E multiple \in SwapMultiples :
                /\ eglLoads => gl.made < MaxInits
                /\ gl' = SwappyGLCtor(gl, eglLoads, isValid, disableProp, statsSupported)
                /\ common' = SwappyCommon(isValid, multiple, now)
                /\ cycle' = OutsideSwap
                /\ glLast' = [op |-> "init", ret |-> gl'.mEnableSwappy,
                              eglLoads |-> eglLoads, isValid |-> isValid,
                              disableProp |-> disableProp]
                /\ UNCHANGED now
    /\ UNCHANGED <<histVars, vkVars, setVars>>

GLDestroyInstance ==
    /\ Outside
    /\ gl' = [NoSwappyGLInstance EXCEPT
                 !.egl = gl.egl,
                 !.made = gl.made,
                 !.freed = gl.freed \cup (IF gl.mEgl # nullptr THEN {gl.mEgl} ELSE {})]
    /\ common' = NoSwappyCommon
    /\ cycle' = OutsideSwap
    /\ glLast' = NoResult
    /\ UNCHANGED <<now, histVars, vkVars, setVars>>

GLIsEnabled ==
    /\ Outside
    /\ glLast' = [NoResult EXCEPT
                     !.op = "isEnabled",
                     !.ret = IF ~gl.sInstance THEN FALSE ELSE gl.mEnableSwappy]
    /\ cycle' = OutsideSwap
    /\ UNCHANGED <<gl, common, now, histVars, vkVars, setVars>>

GLAddTracer ==
    /\ Outside
    /\ \E t \in Tracers \cup {nullptr} :
        /\ Len(common.tracers) < MaxTracers
        /\ common' = IF gl.sInstance /\ gl.mEnableSwappy /\ t # nullptr
                     THEN addTracerCallbacks(common, t) ELSE common
    /\ cycle' = OutsideSwap
    /\ glLast' = NoResult
    /\ UNCHANGED <<gl, now, histVars, vkVars, setVars>>

GLRemoveTracer ==
    /\ Outside
    /\ \E t \in Tracers \cup {nullptr} :
        /\ common' = IF gl.sInstance /\ gl.mEnableSwappy /\ t # nullptr
                     THEN removeTracerCallbacks(common, t) ELSE common
    /\ cycle' = OutsideSwap
    /\ glLast' = NoResult
    /\ UNCHANGED <<gl, now, histVars, vkVars, setVars>>

GLSetFenceTimeout ==
    /\ Outside
    /\ \E t \in FenceTimeouts :
        /\ common' = IF ~gl.sInstance \/ ~gl.mEnableSwappy THEN common
                     ELSE [common EXCEPT !.fenceTimeout = t]
    /\ cycle' = OutsideSwap
    /\ glLast' = NoResult
    /\ UNCHANGED <<gl, now, histVars, vkVars, setVars>>

\* SwappyGL::swap is called, d ticks after the last call: without an instance
\* it returns EGL_FALSE.  The model follows the frames whose deadline is on its
\* clock.
GLSwap ==
    /\ Outside
    /\ \E d \in 0..(MaxTime - now) :
        /\ now' = now + d
        /\ IF ~gl.sInstance
           THEN /\ glLast' = [NoResult EXCEPT !.op = "swap"]
                /\ cycle' = OutsideSwap
           ELSE /\ common.presentationTime <= MaxTime
                /\ cycle' = [OutsideSwap EXCEPT !.pc = swap(gl), !.nowAtStart = now']
                /\ glLast' = NoResult
    /\ UNCHANGED <<gl, common, histVars, vkVars, setVars>>

\* the disabled instance: getEgl()->swapBuffers(display, surface) == EGL_TRUE
GLPassthrough ==
    /\ cycle.pc = "passthrough"
    /\ \/ \E result \in BOOLEAN :
            /\ Through([cycle EXCEPT !.pc = "return",
                                     !.events = Append(@, <<"swapBuffers", 0>>),
                                     !.swapBuffersCalls = @ + 1,
                                     !.result = result,
                                     !.ret = result])
            /\ UNCHANGED <<common, now, glLast>>
       \/ Crashes
    /\ UNCHANGED <<histVars, vkVars, setVars>>

\* getEgl()->insertSyncFence(display)
GLInsertSyncFence ==
    /\ cycle.pc = "insertSyncFence"
    /\ \/ /\ Through([cycle EXCEPT !.pc = swapInternal(cycle.pc, TRUE),
                                   !.phase = "preWait"])
          /\ UNCHANGED <<common, now, glLast>>
       \/ Crashes
    /\ UNCHANGED <<histVars, vkVars, setVars>>

\* onPreSwap, step 1: the pre-wait callbacks
GLPreWait ==
    /\ cycle.pc = "onPreSwap"
    /\ cycle.phase = "preWait"
    /\ cycle' = [cycle EXCEPT !.phase = onPreSwap(cycle.phase),
                              !.events = @ \o Callbacks(common, "preWait")]
    /\ UNCHANGED <<gl, common, now, glLast, histVars, vkVars, setVars>>

\* onPreSwap, step 2: handlers.lastFrameIsComplete, which is
\* getEgl()->lastFrameIsComplete(display, pipelineMode): the fence signals
\* after d ticks, or the fence timeout passes and the frame is recorded as
\* incomplete; the cycle goes on in both cases
GLWait ==
    /\ cycle.pc = "onPreSwap"
    /\ cycle.phase = "wait"
    /\ \/ \E d \in 0..common.fenceTimeout :
            /\ Through([cycle EXCEPT !.phase = onPreSwap(cycle.phase),
                                     !.fenceTimedOut = (d = common.fenceTimeout)])
            /\ now' = Later(now, d)
            /\ UNCHANGED <<common, glLast>>
       \/ Crashes
    /\ UNCHANGED <<histVars, vkVars, setVars>>

\* onPreSwap, step 3: the post-wait callbacks
GLPostWait ==
    /\ cycle.pc = "onPreSwap"
    /\ cycle.phase = "postWait"
    /\ cycle' = [cycle EXCEPT !.phase = onPreSwap(cycle.phase),
                              !.events = @ \o Callbacks(common, "postWait")]
    /\ UNCHANGED <<gl, common, now, glLast, histVars, vkVars, setVars>>

\* onPreSwap, steps 4 to 6: the swap interval stays or goes to another multiple
\* of the refresh period (each change calls the swap-interval-changed
\* callbacks), the deadline of the frame is computed, the pre-swap callbacks
\* are called
GLPreSwap ==
    /\ cycle.pc = "onPreSwap"
    /\ cycle.phase = "preSwap"
    /\ \E multiple \in SwapMultiples :
        LET tuned == [common EXCEPT !.swapIntervalNS = multiple * RefreshPeriod]
        IN  /\ common' = ComputePresentationTime(tuned, now)
            /\ cycle' = [cycle EXCEPT
                  !.pc = swapInternal(cycle.pc, TRUE),
                  !.phase = onPreSwap(cycle.phase),
                  !.events = @ \o (IF tuned.swapIntervalNS # common.swapIntervalNS
                                   THEN Callbacks(common, "swapIntervalChanged")
                                   ELSE <<>>)
                               \o Callbacks(common, "preSwap")]
    /\ UNCHANGED <<gl, now, glLast, histVars, vkVars, setVars>>

\* if (mCommonBase.needToSetPresentationTime()) setPresentationTime(...); a
\* false result is returned to the caller of swap
GLSetPresentationTime ==
    /\ cycle.pc = "setPresentationTime"
    /\ \/ \E needToSetPresentationTime \in {FALSE} :
            /\ cycle' = [cycle EXCEPT !.pc = swapInternal(cycle.pc, TRUE)]
            /\ UNCHANGED <<gl, common, now, glLast>>
       \/ \E sfOffset \in SfOffsets :
            /\ TooCloseToVsync(common, now, sfOffset)
            /\ cycle' = [cycle EXCEPT !.pc = swapInternal(cycle.pc, TRUE),
                                      !.displayTimings = {sfOffset}]
            /\ UNCHANGED <<gl, common, now, glLast>>
       \/ \E sfOffset \in SfOffsets, setPresentationTimeResult \in BOOLEAN :
            /\ ~TooCloseToVsync(common, now, sfOffset)
            /\ Through([cycle EXCEPT
                  !.pc = swapInternal(cycle.pc, setPresentationTimeResult),
                  !.displayTimings = {sfOffset},
                  !.requested = TRUE,
                  !.ret = setPresentationTimeResult])
            /\ UNCHANGED <<common, now, glLast>>
       \/ /\ \E sfOffset \in SfOffsets : ~TooCloseToVsync(common, now, sfOffset)
          /\ Crashes
    /\ UNCHANGED <<histVars, vkVars, setVars>>

\* getEgl()->swapBuffers(display, surface) == EGL_TRUE
GLSwapBuffers ==
    /\ cycle.pc = "swapBuffers"
    /\ \/ \E result \in BOOLEAN :
            /\ Through([cycle EXCEPT !.pc = swapInternal(cycle.pc, TRUE),
                                     !.events = Append(@, <<"swapBuffers", 0>>),
                                     !.swapBuffersCalls = @ + 1,
                                     !.result = result,
                                     !.ret = result,
                                     !.displayTimings = {},
                                     !.requested = FALSE])
            /\ UNCHANGED <<common, now, glLast>>
       \/ Crashes
    /\ UNCHANGED <<histVars, vkVars, setVars>>

\* mCommonBase.onPostSwap(handlers), step 8: the post-swap callbacks; then
\* return swapBuffersResult
GLOnPostSwap ==
    /\ cycle.pc = "onPostSwap"
    /\ cycle' = [cycle EXCEPT !.pc = swapInternal(cycle.pc, TRUE),
                              !.events = @ \o Callbacks(common, "postSwap"),
                              !.ret = IF swapInternal(cycle.pc, TRUE) = "return"
                                      THEN cycle.result ELSE FALSE]
    /\ UNCHANGED <<gl, common, now, glLast, histVars, vkVars, setVars>>

\* the steps of a swap call that has begun
GLCycleStep ==
    \/ GLPassthrough
    \/ GLInsertSyncFence
    \/ GLPreWait
    \/ GLWait
    \/ GLPostWait
    \/ GLPreSwap
    \/ GLSetPresentationTime
    \/ GLSwapBuffers
    \/ GLOnPostSwap

InitGL == NoHistogram /\ NoSwappyGL /\ NoSwappyVk /\ NoSettings

NextGL ==
    \/ GLInit
    \/ GLDestroyInstance
    \/ GLIsEnabled
    \/ GLAddTracer
    \/ GLRemoveTracer
    \/ GLSetFenceTimeout
    \/ GLSwap
    \/ GLCycleStep

SpecGL == InitGL /\ [][NextGL]_vars

\* the render thread does not stop inside a swap call
FairSpecGL == SpecGL /\ WF_vars(GLCycleStep)

---------------------------------------------------------------------------
(* SwappyGL with a second thread that calls destroyInstance.  getInstance
   holds sInstanceMutex only while it reads sInstance and returns the raw
   pointer; destroyInstance takes the mutex and resets sInstance.  The render
   thread inside swap holds no lock. *)

\* the render thread is inside swap, on the pointer getInstance returned
InsideSwap == cycle.pc \notin {"idle", "return", "crashed"}

\* SwappyGL::destroyInstance on another thread, the render thread being inside
\* swap: the instance and its members are destroyed, the render thread keeps
\* its pointer and the memory keeps what was in it
GLDestroyInstanceByOtherThread ==
    /\ InsideSwap
    /\ gl.sInstance
    /\ gl' = [gl EXCEPT
                 !.sInstance = FALSE,
                 !.mEgl = nullptr,
                 !.freed = gl.freed \cup (IF gl.mEgl # nullptr THEN {gl.mEgl} ELSE {})]
    /\ UNCHANGED <<common, cycle, now, glLast, histVars, vkVars, setVars>>

\* a use of the destroyed instance is undefined: the render thread goes on
\* with what the memory held (GLCycleStep), or the process stops
GLUsesDestroyedInstance ==
    /\ InsideSwap
    /\ ~gl.sInstance
    /\ cycle' = [cycle EXCEPT !.pc = "crashed"]
    /\ UNCHANGED <<gl, common, now, glLast, histVars, vkVars, setVars>>

\* the render thread calls init and swap; destroyInstance is called between
\* its calls or, by the other thread, during one
NextGLThreads ==
    \/ GLInit
    \/ GLSwap
    \/ GLCycleStep
    \/ GLDestroyInstance
    \/ GLDestroyInstanceByOtherThread
    \/ GLUsesDestroyedInstance

SpecGLThreads == InitGL /\ [][NextGLThreads]_vars

\* C26: with one thread calling destroyInstance while the render thread is in
\* a SwappyGL entry point, no step of the call is taken on an instance that
\* destroyInstance has destroyed: the pointer from getInstance stays valid for
\* the whole call.
C26_NoUseAfterDestroy ==
    [][ (InsideSwap /\ cycle' # cycle) => gl.sInstance ]_vars

---------------------------------------------------------------------------
(* Properties of SwappyGL *)

\* ev begins seq
IsPrefix(ev, seq) == Len(ev) <= Len(seq) /\ SubSeq(seq, 1, Len(ev)) = ev

Phases == {"preWait", "postWait", "preSwap", "swapBuffers", "postSwap"}

\* the phase events among ev
PhaseEvents(ev) == SelectSeq(ev, LAMBDA e : e[1] \in Phases)

\* the five phases in their order, each callback phase once for every
\* registered tracer
InOrder(c) ==
    Callbacks(c, "preWait") \o Callbacks(c, "postWait") \o Callbacks(c, "preSwap")
        \o << <<"swapBuffers", 0>> >> \o Callbacks(c, "postSwap")

\* swapInternal returns by its last statement
CompletesCycle ==
    /\ cycle.pc \in {"swapBuffers", "onPostSwap"}
    /\ cycle'.pc = "return"

\* C13: in every presentation cycle that completes without error the tracer
\* phases fire in the order pre-wait, post-wait, pre-swap, platform swap,
\* post-swap, each once per registered tracer (so onPreSwap is over before
\* swapBuffers is issued and onPostSwap runs after it), and no phase of the
\* next cycle starts before the post-swap of this one.
C13_PhasesInOrder ==
    [][ /\ CompletesCycle => PhaseEvents(cycle'.events) = InOrder(common)
        /\ (~Outside /\ cycle'.pc # "crashed") =>
              /\ IsPrefix(cycle.events, cycle'.events)
              /\ cycle'.pc # "insertSyncFence" ]_vars

\* a completed cycle with two different tracers registered
C13_Witness ==
    /\ cycle.pc = "return"
    /\ cycle.swapBuffersCalls = 1
    /\ Len(common.tracers) = 2
    /\ common.tracers[1] # common.tracers[2]
    /\ Len(PhaseEvents(cycle.events)) = 9

\* the step of onPreSwap that computes the deadline
ComputesPresentationTime ==
    /\ cycle.pc = "onPreSwap"
    /\ cycle.phase = "preSwap"
    /\ cycle'.phase = "none"

C15_CycleReachesSwap ==
    (cycle.pc = "insertSyncFence" /\ EglLive(gl)) ~> (cycle.swapBuffersCalls = 1)

\* the part of C15 about the wait: the thread does not stay in the wait for the
\* previous frame
WaitEnds ==
    (cycle.pc = "onPreSwap" /\ cycle.phase = "wait")
        ~> ~(cycle.pc = "onPreSwap" /\ cycle.phase = "wait")

\* C16: every SwappyGL::swap call on an existing instance issues the platform
\* swapBuffers call exactly once and returns its result, also when setting the
\* presentation time fails.
C16_SwapAlwaysPresents ==
    cycle.pc = "return"
        => /\ cycle.swapBuffersCalls = 1
           /\ cycle.ret = cycle.result

\* the step of swapInternal at setPresentationTime that does not stop the
\* process
PresentationTimeStep == cycle.pc = "setPresentationTime" /\ cycle'.pc # "crashed"

\* the step calls the platform's setPresentationTime
RequestsPresentationTime ==
    /\ PresentationTimeStep
    /\ cycle'.requested

\* the step goes on to swapBuffers with no platform call
SkipsPresentationTime ==
    /\ ~cycle'.requested
    /\ cycle'.pc = "swapBuffers"

\* C24: SwappyGL requests the explicit presentation timestamp from the
\* platform only when the computed presentation time is more than one refresh
\* period after now; when presentationTime - now is at most one refresh
\* period the request is skipped and success is reported without a platform
\* call.
C24_RequestOnlyBeyondOnePeriod ==
    [][ /\ RequestsPresentationTime
              => common.presentationTime - now > RefreshPeriod
        /\ (PresentationTimeStep /\ common.presentationTime - now <= RefreshPeriod)
              => SkipsPresentationTime ]_vars

\* C24, amended: in setPresentationTime the timestamp is requested from the
\* platform exactly when presentationTime - now is at least the refresh period
\* less the sfOffset of the display timings; when it is less, the request is
\* skipped and success is reported without a platform call.
C24_RequestOnlyFromPeriodLessOffset ==
    [][ PresentationTimeStep =>
            \A sfOffset \in cycle'.displayTimings :
                IF common.presentationTime - now < RefreshPeriod - sfOffset
                THEN SkipsPresentationTime
                ELSE RequestsPresentationTime ]_vars

\* the platform was asked for a deadline nearer than one refresh period, the
\* sfOffset being 1
C24_Witness ==
    /\ cycle.pc = "swapBuffers"
    /\ cycle.requested
    /\ cycle.displayTimings = {1}
    /\ common.presentationTime - now = RefreshPeriod - 1

\* the step is a call of SwappyGL::init
InitStep == glLast'.op \in {"init", "init twice"}

\* C25: there is at most one SwappyGL instance: init with an instance in place
\* returns false and leaves the instance as it is; init returns true only when
\* it has just made an enabled instance; an instance made disabled stays in
\* place though init returns false, so that later inits return false; the
\* instance goes only by destroyInstance.
C25_Singleton ==
    [][ /\ InitStep =>
              IF gl.sInstance
              THEN /\ ~glLast'.ret
                   /\ gl' = gl
                   /\ common' = common
              ELSE /\ gl'.sInstance
                   /\ glLast'.ret = gl'.mEnableSwappy
                   /\ gl'.mEnableSwappy =
                         (glLast'.eglLoads /\ glLast'.isValid /\ ~glLast'.disableProp)
        /\ (gl.sInstance /\ ~gl'.sInstance) =>
              /\ ~InitStep
              /\ gl' = [NoSwappyGLInstance EXCEPT
                           !.egl = gl.egl, !.made = gl.made, !.freed = gl'.freed]
              /\ common' = NoSwappyCommon ]_vars

\* init was called with a disabled instance in place
C25_Witness ==
    /\ glLast.op = "init twice"
    /\ gl.sInstance
    /\ ~gl.mEnableSwappy

\* C27: getEgl() on the instance in place returns the EGL object that instance
\* owns, also after destroyInstance and a new init on a thread that has called
\* swap on the earlier instance: never the EGL object of a destroyed instance.
C27_GetEglOfThisInstance ==
    gl.sInstance
        => /\ getEgl(gl).egl = gl.mEgl
           /\ getEgl(gl).egl \notin gl.freed

\* C17: when construction fails for an absent capability, init returns false,
\* the instance is disabled, and every later swap calls the platform
\* swapBuffers once, with no callback, returns its result and never uses a
\* missing EGL object.
C17_DisabledPassthrough ==
    /\ (glLast.op = "init"
          /\ (~glLast.eglLoads \/ ~glLast.isValid \/ glLast.disableProp))
        => /\ glLast.ret = FALSE
           /\ gl.sInstance
           /\ ~gl.mEnableSwappy
    /\ (gl.sInstance /\ ~gl.mEnableSwappy)
        => /\ ~cycle.invalidEglUse
           /\ cycle.pc # "crashed"
           /\ cycle.pc = "return"
                => /\ cycle.events = << <<"swapBuffers", 0>> >>
                   /\ cycle.swapBuffersCalls = 1
                   /\ cycle.ret = cycle.result

---------------------------------------------------------------------------
(* SwappyVk *)

\* the handles the application passes
Swapchains == {1, 2}
Devices == {1, 2}
Queues == {1}
PhysicalDevices == {1}

\* std::map: insert or assign, erase
Put(m, k, v) == [x \in DOMAIN m \cup {k} |-> IF x = k THEN v ELSE m[x]]
Erase(m, k) == [x \in DOMAIN m \ {k} |-> m[x]]

\* an empty std::shared_ptr<SwappyVkBase>
NullImplementation ==
    [isNull |-> TRUE, device |-> nullptr, strategy |-> "none", tracers |-> <<>>]

\* std::make_shared<SwappyVkGoogleDisplayTiming>(...) or
\* std::make_shared<SwappyVkFallback>(...), made for a device; tracers: the
\* tracers added to the implementation's SwappyCommon
Implementation(device, displayTiming) ==
    [ isNull   |-> FALSE,
      device   |-> device,
      strategy |-> IF displayTiming THEN "SwappyVkGoogleDisplayTiming"
                   ELSE "SwappyVkFallback",
      tracers  |-> <<>> ]

\* pImplementation->addTracer(&tracer) for every tracer of the list, in order
RECURSIVE AddTracers(_, _)
AddTracers(impl, list) ==
    IF list = <<>> THEN impl
    ELSE AddTracers(addTracerCallbacks(impl, Head(list)), Tail(list))

\* std::map::operator[]: a key that is not in the map is inserted with a
\* value-initialized value
Index(m, k, default) == IF k \in DOMAIN m THEN m ELSE Put(m, k, default)

\* the swapchains whose entry holds a null pointer
NullEntries(v) ==
    { sc \in DOMAIN v.perSwapchainImplementation :
        v.perSwapchainImplementation[sc].isNull }

\* the outcomes of a call: the SwappyVk after it and what it returns
Outcome(v, ret) == [vk |-> v, ret |-> ret]

\* a call through a null implementation pointer is undefined: the process
\* stops, or the call goes on and returns anything
Undefined(v) ==
    { Outcome([v EXCEPT !.nullDereferenced = TRUE, !.crashed = c], "undefined") :
        c \in BOOLEAN }

---------------------------------------------------------------------------
(* The public calls of SwappyVk: each gives the set of its outcomes *)

SetQueueFamilyIndex(v, device, queue, queueFamilyIndex) ==
    { Outcome([v EXCEPT !.perQueueFamilyIndex =
                   Put(@, queue, [device |-> device,
                                  queueFamilyIndex |-> queueFamilyIndex])],
              "void") }

\* with pRequiredExtensions given: the flag of the physical device is set to
\* whether VK_GOOGLE_display_timing is among the available extensions
swappyVkDetermineDeviceExtensions(v, physicalDevice, available) ==
    { Outcome([v EXCEPT !.doesPhysicalDeviceHaveGoogleDisplayTiming =
                   Put(@, physicalDevice, available)],
              "void") }

\* a slip: an implementation is made at every call, also when the swapchain
\* has one
GetRefreshCycleDurationRecreates(v, physicalDevice, device, swapchain, initFunctions, result) ==
    LET indexed == [v EXCEPT !.perSwapchainImplementation =
                       Index(@, swapchain, NullImplementation)]
        flagged == [indexed EXCEPT !.doesPhysicalDeviceHaveGoogleDisplayTiming =
                       Index(@, physicalDevice, FALSE)]
        created == [flagged EXCEPT !.perSwapchainImplementation[swapchain] =
                       Implementation(device,
                           flagged.doesPhysicalDeviceHaveGoogleDisplayTiming[physicalDevice])]
        traced(w) == [w EXCEPT !.perSwapchainImplementation[swapchain] =
                         AddTracers(@, w.tracer_list)]
    IN  IF ~initFunctions THEN { Outcome(indexed, "false") }
        ELSE { Outcome(traced(created), result) }

\* initFunctions: whether InitFunctions() finds Vulkan; result: what
\* doGetRefreshCycleDuration returns
GetRefreshCycleDuration(v, physicalDevice, device, swapchain, initFunctions, result) ==
    LET indexed == [v EXCEPT !.perSwapchainImplementation =
                       Index(@, swapchain, NullImplementation)]
        flagged == [indexed EXCEPT !.doesPhysicalDeviceHaveGoogleDisplayTiming =
                       Index(@, physicalDevice, FALSE)]
        created == [flagged EXCEPT !.perSwapchainImplementation[swapchain] =
                       Implementation(device,
                           flagged.doesPhysicalDeviceHaveGoogleDisplayTiming[physicalDevice])]
        traced(w) == [w EXCEPT !.perSwapchainImplementation[swapchain] =
                         AddTracers(@, w.tracer_list)]
    IN  IF ~indexed.perSwapchainImplementation[swapchain].isNull
        THEN { Outcome(traced(indexed), result) }
        ELSE IF ~initFunctions THEN { Outcome(indexed, "false") }
        ELSE { Outcome(traced(created), result) }

\* the calls that look the swapchain up with operator[] and return when the
\* pointer is null: SetWindow, SetSwapDuration, IsEnabled
IndexThenCall(v, swapchain, failure, result) ==
    LET indexed == [v EXCEPT !.perSwapchainImplementation =
                       Index(@, swapchain, NullImplementation)]
    IN  IF indexed.perSwapchainImplementation[swapchain].isNull
        THEN { Outcome(indexed, failure) }
        ELSE { Outcome(indexed, result) }

SetWindow(v, device, swapchain) == IndexThenCall(v, swapchain, "void", "void")

SetSwapDuration(v, device, swapchain) == IndexThenCall(v, swapchain, "void", "void")

IsEnabled(v, swapchain) == IndexThenCall(v, swapchain, "false", "true")

\* swapchains: pPresentInfo->pSwapchains, swapchainCount of them; result: what
\* doQueuePresent returns
QueuePresent(v, queue, swapchains, result) ==
    IF queue \notin DOMAIN v.perQueueFamilyIndex THEN { Outcome(v, "VK_INCOMPLETE") }
    ELSE IF Len(swapchains) = 0 THEN { Outcome(v, "VK_ERROR_DEVICE_LOST") }
    ELSE IndexThenCall(v, swapchains[1], "VK_ERROR_DEVICE_LOST", result)

DestroySwapchain(v, device, swapchain) ==
    IF swapchain \notin DOMAIN v.perSwapchainImplementation THEN { Outcome(v, "void") }
    ELSE { Outcome([v EXCEPT !.perSwapchainImplementation = Erase(@, swapchain)],
                   "void") }

\* the first loop of DestroyDevice over the entries not yet visited: an entry
\* of the device is erased; at a null entry it->second->getDevice() is
\* undefined: the process stops with the entries so far erased, or the entry
\* is taken for one of the device, or for one of another device
RECURSIVE EraseSwapchains(_, _, _)
EraseSwapchains(m, todo, device) ==
    IF todo = {} THEN { [map |-> m, nullDereferenced |-> FALSE, crashed |-> FALSE] }
    ELSE LET sc   == CHOOSE x \in todo : \A y \in todo : x <= y
             rest == todo \ {sc}
             undefined(r) == [r EXCEPT !.nullDereferenced = TRUE]
         IN  IF m[sc].isNull
             THEN { [map |-> m, nullDereferenced |-> TRUE, crashed |-> TRUE] }
                  \cup { undefined(r) : r \in EraseSwapchains(Erase(m, sc), rest, device) }
                  \cup { undefined(r) : r \in EraseSwapchains(m, rest, device) }
             ELSE IF m[sc].device = device
             THEN EraseSwapchains(Erase(m, sc), rest, device)
             ELSE EraseSwapchains(m, rest, device)

\* the second loop of DestroyDevice
EraseQueues(m, device) == [q \in { x \in DOMAIN m : m[x].device # device } |-> m[q]]

DestroyDevice(v, device) ==
    { Outcome([v EXCEPT !.perSwapchainImplementation = r.map,
                        !.perQueueFamilyIndex =
                            IF r.crashed THEN @ ELSE EraseQueues(@, device),
                        !.nullDereferenced = @ \/ r.nullDereferenced,
                        !.crashed = r.crashed],
              IF r.nullDereferenced THEN "undefined" ELSE "void") :
        r \in EraseSwapchains(v.perSwapchainImplementation,
                              DOMAIN v.perSwapchainImplementation, device) }

\* the calls that go through every entry of the map: SetAutoSwapInterval,
\* SetAutoPipelineMode, SetMaxAutoSwapDuration, SetFenceTimeout, and the loops
\* of addTracer and removeTracer
ForEachImplementation(v) ==
    IF NullEntries(v) # {} THEN Undefined(v) ELSE { Outcome(v, "void") }

SetAutoSwapInterval(v) == ForEachImplementation(v)

SetAutoPipelineMode(v) == ForEachImplementation(v)

SetMaxAutoSwapDuration(v) == ForEachImplementation(v)

SetFenceTimeout(v) == ForEachImplementation(v)

\* the first entry's timeout, or 0 with no entry
GetFenceTimeout(v) ==
    LET m == v.perSwapchainImplementation
    IN  IF DOMAIN m = {} THEN { Outcome(v, "0ns") }
        ELSE IF m[CHOOSE x \in DOMAIN m : \A y \in DOMAIN m : x <= y].isNull
        THEN Undefined(v)
        ELSE { Outcome(v, "fenceTimeout") }

\* the loop of addTracer (adds) and removeTracer: the tracer is added to or
\* removed from i.second for every entry;
\* at a null entry the call is undefined, the entries before it are done
ForEachTracerCall(v, adds, t) ==
    LET m    == v.perSwapchainImplementation
        done == IF NullEntries(v) = {} THEN DOMAIN m
                ELSE { sc \in DOMAIN m : \A n \in NullEntries(v) : sc < n }
        w    == [v EXCEPT !.perSwapchainImplementation =
                    [sc \in DOMAIN m |-> IF sc \in done
                                     THEN IF adds THEN addTracerCallbacks(m[sc], t)
                                          ELSE removeTracerCallbacks(m[sc], t)
                                     ELSE m[sc]]]
    IN  IF NullEntries(v) # {} THEN Undefined(w) ELSE { Outcome(w, "void") }

addTracer(v, t) ==
    IF t = nullptr THEN { Outcome(v, "void") }
    ELSE ForEachTracerCall([v EXCEPT !.tracer_list = Append(@, t)], TRUE, t)

\* a slip: only the first element equal to the tracer is removed
removeTracerFirstOnly(v, t) ==
    LET first == { i \in 1..Len(v.tracer_list) :
                     v.tracer_list[i] = t /\ \A j \in 1..(i - 1) : v.tracer_list[j] # t }
        kept  == { i \in 1..Len(v.tracer_list) : i \notin first }
        list  == [k \in 1..Cardinality(kept) |->
                     v.tracer_list[CHOOSE i \in kept :
                                       Cardinality({ j \in kept : j < i }) = k - 1]]
    IN  IF t = nullptr THEN { Outcome(v, "void") }
        ELSE ForEachTracerCall([v EXCEPT !.tracer_list = list], FALSE, t)

\* tracer_list.remove(*t) removes every element equal to *t
removeTracer(v, t) ==
    IF t = nullptr THEN { Outcome(v, "void") }
    ELSE ForEachTracerCall(
             [v EXCEPT !.tracer_list = SelectSeq(@, LAMBDA x : x # t)], FALSE, t)

GetSupportedRefreshPeriodsNS(v, swapchain) ==
    LET indexed == [v EXCEPT !.perSwapchainImplementation =
                       Index(@, swapchain, NullImplementation)]
    IN  IF indexed.perSwapchainImplementation[swapchain].isNull
        THEN Undefined(indexed)
        ELSE { Outcome(indexed, "count") }

\* the calls that look the swapchain up with find and call the implementation
\* of the entry found: GetSwapInterval, enableStats, getStats,
\* recordFrameStart, clearStats, resetFramePacing, enableFramePacing,
\* enableBlockingWait
FindThenCall(v, swapchain, default, result) ==
    IF swapchain \notin DOMAIN v.perSwapchainImplementation
    THEN { Outcome(v, default) }
    ELSE IF v.perSwapchainImplementation[swapchain].isNull THEN Undefined(v)
    ELSE { Outcome(v, result) }

GetSwapInterval(v, swapchain) == FindThenCall(v, swapchain, "0ns", "swapInterval")

enableStats(v, swapchain) == FindThenCall(v, swapchain, "void", "void")

getStats(v, swapchain) == FindThenCall(v, swapchain, "void", "void")

recordFrameStart(v, swapchain) == FindThenCall(v, swapchain, "void", "void")

clearStats(v, swapchain) == FindThenCall(v, swapchain, "void", "void")

resetFramePacing(v, swapchain) == FindThenCall(v, swapchain, "void", "void")

enableFramePacing(v, swapchain) == FindThenCall(v, swapchain, "void", "void")

enableBlockingWait(v, swapchain) == FindThenCall(v, swapchain, "void", "void")

---------------------------------------------------------------------------
(* SwappyVk as a state machine: one action per public call *)

QueueFamilyIndices == {0}

VkResults == {"VK_SUCCESS"}

\* pPresentInfo->pSwapchains of QueuePresent
PresentedSwapchains == UNION { [1..n -> Swapchains] : n \in 0..1 }

\* the model follows the implementations that hold at most MaxTracers tracers
Followed(outcomes) ==
    { r \in outcomes :
        \A sc \in DOMAIN r.vk.perSwapchainImplementation :
            Len(r.vk.perSwapchainImplementation[sc].tracers) <= MaxTracers }

\* the process goes on with one outcome of the call
Returns(outcomes) ==
    /\ ~vk.crashed
    /\ \E r \in Followed(outcomes) : vk' = r.vk
    /\ UNCHANGED <<vkThreads, histVars, glVars, setVars>>

VkSetQueueFamilyIndex ==
    \E device \in Devices, queue \in Queues, index \in QueueFamilyIndices :
        Returns(SetQueueFamilyIndex(vk, device, queue, index))

VkDetermineDeviceExtensions ==
    \E physicalDevice \in PhysicalDevices, available \in BOOLEAN :
        Returns(swappyVkDetermineDeviceExtensions(vk, physicalDevice, available))

VkGetRefreshCycleDuration ==
    \E physicalDevice \in PhysicalDevices, device \in Devices,
       swapchain \in Swapchains, initFunctions \in BOOLEAN,
       result \in {"true"} :
        Returns(GetRefreshCycleDuration(vk, physicalDevice, device, swapchain,
                                        initFunctions, result))

VkSetWindow ==
    \E device \in Devices, swapchain \in Swapchains :
        Returns(SetWindow(vk, device, swapchain))

VkSetSwapDuration ==
    \E device \in Devices, swapchain \in Swapchains :
        Returns(SetSwapDuration(vk, device, swapchain))

VkIsEnabled == \E swapchain \in Swapchains : Returns(IsEnabled(vk, swapchain))

VkQueuePresent ==
    \E queue \in Queues, swapchains \in PresentedSwapchains, result \in VkResults :
        Returns(QueuePresent(vk, queue, swapchains, result))

VkDestroySwapchain ==
    \E device \in Devices, swapchain \in Swapchains :
        Returns(DestroySwapchain(vk, device, swapchain))

VkDestroyDevice == \E device \in Devices : Returns(DestroyDevice(vk, device))

VkSetAutoSwapInterval == Returns(SetAutoSwapInterval(vk))

VkSetAutoPipelineMode == Returns(SetAutoPipelineMode(vk))

VkSetMaxAutoSwapDuration == Returns(SetMaxAutoSwapDuration(vk))

VkSetFenceTimeout == Returns(SetFenceTimeout(vk))

VkGetFenceTimeout == Returns(GetFenceTimeout(vk))

VkGetSwapInterval == \E swapchain \in Swapchains : Returns(GetSwapInterval(vk, swapchain))

VkAddTracer ==
    /\ Len(vk.tracer_list) < MaxTracers
    /\ \E t \in Tracers \cup {nullptr} : Returns(addTracer(vk, t))

VkRemoveTracer == \E t \in Tracers \cup {nullptr} : Returns(removeTracer(vk, t))

VkGetSupportedRefreshPeriodsNS ==
    \E swapchain \in Swapchains : Returns(GetSupportedRefreshPeriodsNS(vk, swapchain))

VkEnableStats == \E swapchain \in Swapchains : Returns(enableStats(vk, swapchain))

VkGetStats == \E swapchain \in Swapchains : Returns(getStats(vk, swapchain))

VkRecordFrameStart == \E swapchain \in Swapchains : Returns(recordFrameStart(vk, swapchain))

VkClearStats == \E swapchain \in Swapchains : Returns(clearStats(vk, swapchain))

VkResetFramePacing == \E swapchain \in Swapchains : Returns(resetFramePacing(vk, swapchain))

VkEnableFramePacing == \E swapchain \in Swapchains : Returns(enableFramePacing(vk, swapchain))

VkEnableBlockingWait == \E swapchain \in Swapchains : Returns(enableBlockingWait(vk, swapchain))

InitVk == NoHistogram /\ NoSwappyGL /\ NoSwappyVk /\ NoSettings

NextVk ==
    \/ VkSetQueueFamilyIndex
    \/ VkDetermineDeviceExtensions
    \/ VkGetRefreshCycleDuration
    \/ VkSetWindow
    \/ VkSetSwapDuration
    \/ VkIsEnabled
    \/ VkQueuePresent
    \/ VkDestroySwapchain
    \/ VkDestroyDevice
    \/ VkSetAutoSwapInterval
    \/ VkSetAutoPipelineMode
    \/ VkSetMaxAutoSwapDuration
    \/ VkSetFenceTimeout
    \/ VkGetFenceTimeout
    \/ VkGetSwapInterval
    \/ VkAddTracer
    \/ VkRemoveTracer
    \/ VkGetSupportedRefreshPeriodsNS
    \/ VkEnableStats
    \/ VkGetStats
    \/ VkRecordFrameStart
    \/ VkClearStats
    \/ VkResetFramePacing
    \/ VkEnableFramePacing
    \/ VkEnableBlockingWait

SpecVk == InitVk /\ [][NextVk]_vars

---------------------------------------------------------------------------
(* Properties of SwappyVk *)

\* no implementation was registered for the swapchain: the map holds no entry
\* for it, or an entry with a null pointer
Unregistered(v, swapchain) ==
    \/ swapchain \notin DOMAIN v.perSwapchainImplementation
    \/ v.perSwapchainImplementation[swapchain].isNull

\* every outcome of the call leaves both maps as they are and returns the value
NoOp(v, outcomes, value) ==
    \A r \in outcomes :
        /\ r.vk.perSwapchainImplementation = v.perSwapchainImplementation
        /\ r.vk.perQueueFamilyIndex = v.perQueueFamilyIndex
        /\ r.ret = value

\* C18: a call addressed to a swapchain with no registered implementation
\* leaves the per-swapchain map and the per-queue map unchanged, keys and
\* values, and returns its failure or default value; the calls are SetWindow,
\* SetSwapDuration, IsEnabled, QueuePresent on a registered queue,
\* GetSwapInterval, enableStats, getStats, clearStats, resetFramePacing,
\* enableFramePacing, enableBlockingWait and DestroySwapchain of a swapchain
\* with no entry.
C18_UnregisteredSwapchainNoOp ==
    ~vk.crashed =>
        \A swapchain \in { sc \in Swapchains : Unregistered(vk, sc) } :
            /\ \A device \in Devices :
                  /\ NoOp(vk, SetWindow(vk, device, swapchain), "void")
                  /\ NoOp(vk, SetSwapDuration(vk, device, swapchain), "void")
                  /\ swapchain \notin DOMAIN vk.perSwapchainImplementation
                        => NoOp(vk, DestroySwapchain(vk, device, swapchain), "void")
            /\ NoOp(vk, IsEnabled(vk, swapchain), "false")
            /\ \A queue \in DOMAIN vk.perQueueFamilyIndex, result \in VkResults :
                  NoOp(vk, QueuePresent(vk, queue, <<swapchain>>, result),
                       "VK_ERROR_DEVICE_LOST")
            /\ NoOp(vk, GetSwapInterval(vk, swapchain), "0ns")
            /\ NoOp(vk, enableStats(vk, swapchain), "void")
            /\ NoOp(vk, getStats(vk, swapchain), "void")
            /\ NoOp(vk, clearStats(vk, swapchain), "void")
            /\ NoOp(vk, resetFramePacing(vk, swapchain), "void")
            /\ NoOp(vk, enableFramePacing(vk, swapchain), "void")
            /\ NoOp(vk, enableBlockingWait(vk, swapchain), "void")

\* C19: from an empty SwappyVk no sequence of public calls, whatever the
\* handles, dereferences a null per-swapchain implementation pointer.
C19_NoNullDereference == ~vk.nullDereferenced

\* what DestroyDevice(device) promises of the state w it leaves from v
DeviceDestroyed(v, w, device) ==
    LET m == v.perSwapchainImplementation   n == w.perSwapchainImplementation
        q == v.perQueueFamilyIndex          p == w.perQueueFamilyIndex
    IN  /\ ~w.crashed
        /\ \A sc \in DOMAIN n : n[sc].isNull \/ n[sc].device # device
        /\ \A x \in DOMAIN p : p[x].device # device
        /\ \A sc \in DOMAIN m :
              (~m[sc].isNull /\ m[sc].device # device)
                  => (sc \in DOMAIN n /\ n[sc] = m[sc])
        /\ \A x \in DOMAIN q :
              q[x].device # device => (x \in DOMAIN p /\ p[x] = q[x])

\* what DestroySwapchain(swapchain) promises of the state w it leaves from v
SwapchainDestroyed(v, w, swapchain) ==
    /\ ~w.crashed
    /\ swapchain \notin DOMAIN w.perSwapchainImplementation
    /\ w.perSwapchainImplementation = Erase(v.perSwapchainImplementation, swapchain)
    /\ w.perQueueFamilyIndex = v.perQueueFamilyIndex

\* C20: DestroyDevice(d) returns with no implementation of d in the
\* per-swapchain map, no queue of d in the per-queue map and every entry of
\* another device unchanged; DestroySwapchain(s) returns with no entry for s
\* and every other swapchain entry and every queue entry unchanged.
C20_DestroyErases ==
    ~vk.crashed =>
        /\ \A device \in Devices : \A r \in DestroyDevice(vk, device) :
              DeviceDestroyed(vk, r.vk, device)
        /\ \A device \in Devices, swapchain \in Swapchains :
              \A r \in DestroySwapchain(vk, device, swapchain) :
                  SwapchainDestroyed(vk, r.vk, swapchain)

---------------------------------------------------------------------------
(* SwappyVk called by several threads: the places of the calls where the   *)
(* swapchain-keyed map and the tracer list are used.  A call takes effect  *)
(* when it returns.                                                        *)

\* the entry points the threads call
ThreadCalls ==
    {"GetRefreshCycleDuration", "DestroySwapchain", "QueuePresent",
     "addTracer", "SetFenceTimeout"}

\* the calls whose use of the map can change it: operator[] and erase
WritesMap(call) == call \in {"GetRefreshCycleDuration", "DestroySwapchain", "QueuePresent"}

\* the first place of a call: addTracer takes tracer_list_lock before anything
\* else, the other calls go to the map with no lock
FirstPlace(call) == IF call = "addTracer" THEN "tracer_list" ELSE "map"

\* the place after pc in the call, "outside" when the call returns:
\* GetRefreshCycleDuration goes from the map to the tracer list, addTracer from
\* the tracer list to the loop over the map
NextPlace(call, pc) ==
    CASE call = "GetRefreshCycleDuration" /\ pc = "map" -> "tracer_list"
      [] call = "addTracer" /\ pc = "tracer_list"       -> "map"
      [] OTHER                                          -> "outside"

\* tracer_list_lock is held in tracer_list, and by addTracer to its end: its
\* lock_guard lives to the end of the if block, the loop over the map included
HoldsLock(call, pc) ==
    \/ pc = "tracer_list"
    \/ call = "addTracer" /\ pc = "map"

\* some thread holds tracer_list_lock
tracer_list_lock == \E t \in Threads : vkThreads[t].lock

\* the threads in the map
InMap(threads) == { t \in Threads : threads[t].pc = "map" }

\* thread t is at pc: when it is in the map at the same time as another thread
\* and one of the two can change the map, both have raced
At(threads, t, pc) ==
    LET moved == [threads EXCEPT ![t].pc = pc,
                                 ![t].lock = HoldsLock(threads[t].call, pc)]
        racing == { u \in InMap(moved) \ {t} :
                      WritesMap(moved[t].call) \/ WritesMap(moved[u].call) }
    IN  IF pc = "map" /\ racing # {}
        THEN [u \in Threads |->
                 IF u \in racing \cup {t} THEN [moved[u] EXCEPT !.raced = TRUE]
                 ELSE moved[u]]
        ELSE moved

\* the outcomes of the call of a thread; after a race on the map the process
\* may also stop
ThreadCall(v, th) ==
    (CASE th.call = "GetRefreshCycleDuration" ->
             UNION { GetRefreshCycleDuration(v, physicalDevice, device, th.swapchain,
                                             initFunctions, "true") :
                       physicalDevice \in PhysicalDevices, device \in Devices,
                       initFunctions \in BOOLEAN }
       [] th.call = "DestroySwapchain" ->
             UNION { DestroySwapchain(v, device, th.swapchain) : device \in Devices }
       [] th.call = "QueuePresent" ->
             UNION { QueuePresent(v, queue, <<th.swapchain>>, "VK_SUCCESS") :
                       queue \in Queues }
       [] th.call = "addTracer" ->
             UNION { addTracer(v, t) : t \in Tracers }
       [] th.call = "SetFenceTimeout" -> SetFenceTimeout(v))
    \cup (IF th.raced THEN { Outcome([v EXCEPT !.crashed = TRUE], "undefined") }
          ELSE {})

\* a thread calls an entry point and comes to its first place; it waits while
\* that place needs tracer_list_lock and another thread holds it
VkThreadCalls(t) ==
    /\ ~vk.crashed
    /\ vkThreads[t].pc = "outside"
    /\ \E call \in ThreadCalls, swapchain \in Swapchains :
        /\ call = "addTracer" => Len(vk.tracer_list) < MaxTracers
        /\ HoldsLock(call, FirstPlace(call)) => ~tracer_list_lock
        /\ vkThreads' = At([vkThreads EXCEPT ![t].call = call,
                                             ![t].swapchain = swapchain],
                           t, FirstPlace(call))
    /\ UNCHANGED <<vk, histVars, glVars, setVars>>

\* a thread goes from one place of its call to the next
VkThreadGoesOn(t) ==
    LET th == vkThreads[t]
        pc == NextPlace(th.call, th.pc)
    IN  /\ ~vk.crashed
        /\ th.pc # "outside"
        /\ pc # "outside"
        /\ (HoldsLock(th.call, pc) /\ ~th.lock) => ~tracer_list_lock
        /\ vkThreads' = At(vkThreads, t, pc)
        /\ UNCHANGED <<vk, histVars, glVars, setVars>>

\* a thread returns from its call
VkThreadReturns(t) ==
    LET th == vkThreads[t]
    IN  /\ ~vk.crashed
        /\ th.pc # "outside"
        /\ NextPlace(th.call, th.pc) = "outside"
        /\ \E r \in Followed(ThreadCall(vk, th)) : vk' = r.vk
        /\ vkThreads' = [vkThreads EXCEPT ![t] = OutsideSwappyVk]
        /\ UNCHANGED <<histVars, glVars, setVars>>

NextVkThreads ==
    \E t \in Threads : VkThreadCalls(t) \/ VkThreadGoesOn(t) \/ VkThreadReturns(t)

SpecVkThreads == InitVk /\ [][NextVkThreads]_vars

\* at most one thread is in tracer_list or holds its lock
TracerListExclusive == Cardinality({ t \in Threads : vkThreads[t].lock }) <= 1

\* C21: with several threads in SwappyVk entry points, no two threads are at
\* the same time inside a lookup, insert, erase or iteration of the
\* swapchain-keyed map.
C21_MapExclusive == Cardinality(InMap(vkThreads)) <= 1

---------------------------------------------------------------------------
(* Properties of the tracers and the implementations of SwappyVk *)

\* the swapchains that have an implementation
Live(v) ==
    { sc \in DOMAIN v.perSwapchainImplementation :
        ~v.perSwapchainImplementation[sc].isNull }

\* C22: the tracers attached to every live swapchain implementation are the
\* tracers of the global registration list, each once and in registration
\* order, whatever addTracer, removeTracer and GetRefreshCycleDuration calls
\* were made, repeated GetRefreshCycleDuration calls on a swapchain included.
\* (Stated for the runs in which no call has used a null implementation
\* pointer.)
C22_ImplementationTracersAreTheList ==
    ~vk.nullDereferenced =>
        \A sc \in Live(vk) : vk.perSwapchainImplementation[sc].tracers = vk.tracer_list

\* the implementation of a swapchain is the same object: made for the same
\* device with the same strategy
SameImplementation(a, b) == a.device = b.device /\ a.strategy = b.strategy

\* C23: a swapchain owns at most one implementation at a time: a
\* GetRefreshCycleDuration call for a swapchain that has an implementation
\* keeps it, and no call changes the strategy chosen when the implementation
\* was made, also after swappyVkDetermineDeviceExtensions has changed the flag
\* of the physical device; the implementation goes only when DestroySwapchain
\* or DestroyDevice erases the entry.
C23_OneImplementationPerSwapchain ==
    [][ /\ \A sc \in Live(vk) \cap Live(vk') :
              SameImplementation(vk.perSwapchainImplementation[sc],
                                 vk'.perSwapchainImplementation[sc])
        /\ \A sc \in Live(vk), physicalDevice \in PhysicalDevices,
              device \in Devices, initFunctions \in BOOLEAN :
              \A r \in GetRefreshCycleDuration(vk, physicalDevice, device, sc,
                                               initFunctions, "true") :
                  /\ sc \in Live(r.vk)
                  /\ SameImplementation(vk.perSwapchainImplementation[sc],
                                        r.vk.perSwapchainImplementation[sc]) ]_vars

\* a swapchain has its fallback implementation, the flag of the physical
\* device says display timing since, and GetRefreshCycleDuration has been
\* called on the swapchain again (it holds a tracer more than the list)
C23_Witness ==
    \E sc \in Live(vk), physicalDevice \in DOMAIN vk.doesPhysicalDeviceHaveGoogleDisplayTiming :
        /\ vk.perSwapchainImplementation[sc].strategy = "SwappyVkFallback"
        /\ vk.doesPhysicalDeviceHaveGoogleDisplayTiming[physicalDevice]
        /\ Len(vk.perSwapchainImplementation[sc].tracers) > Len(vk.tracer_list)
        /\ ~vk.nullDereferenced

---------------------------------------------------------------------------
(* The tracer list of SwappyVk alone: addTracer and removeTracer with three *)
(* SwappyTracer structs, before any swapchain is used                       *)

\* the SwappyTracer structs passed: two equal structs are one value
TracerStructs == Tracers \cup {3}

\* the registrations followed
MaxRegistrations == MaxTracers + 2

VkRegistersTracer ==
    /\ Len(vk.tracer_list) < MaxRegistrations
    /\ \E t \in TracerStructs : Returns(addTracer(vk, t))

VkUnregistersTracer == \E t \in TracerStructs : Returns(removeTracer(vk, t))

NextVkTracers == VkRegistersTracer \/ VkUnregistersTracer

SpecVkTracers == InitVk /\ [][NextVkTracers]_vars

\* the places of list whose element is not equal to t
Others(list, t) == { i \in 1..Len(list) : list[i] # t }

\* the k-th place of a set of places
Kth(places, k) == CHOOSE i \in places : Cardinality({ j \in places : j < i }) = k - 1

\* C28: after removeTracer(t) the tracer list has no element equal to t, one
\* call removing every duplicate; the other tracers are all there in their
\* order; removeTracer of a tracer that is not on the list leaves the list as
\* it is.
C28_RemoveTracerRemovesAll ==
    \A t \in TracerStructs : \A r \in removeTracer(vk, t) :
        LET old    == vk.tracer_list
            list   == r.vk.tracer_list
            others == Others(old, t)
        IN  /\ \A i \in 1..Len(list) : list[i] # t
            /\ Len(list) = Cardinality(others)
            /\ \A k \in 1..Len(list) : list[k] = old[Kth(others, k)]
            /\ (others = 1..Len(old)) => list = old

\* the list holds a tracer twice, with another tracer before the two and a
\* third between them
C28_Witness ==
    /\ Len(vk.tracer_list) = 4
    /\ \E t \in TracerStructs :
          /\ Cardinality(Others(vk.tracer_list, t)) = 2
          /\ vk.tracer_list[1] # t
          /\ vk.tracer_list[3] # t
          /\ vk.tracer_list[1] # vk.tracer_list[3]

---------------------------------------------------------------------------
(* Settings::NumAnnotationCombinations.  The unsigned 64-bit n and m of the
   source are words of UintBits bits here, and the unsigned 32-bit enum sizes
   are below 2^(UintBits / 2). *)

\* the width of the word that stands for uint64_t
UintBits == 8

\* the longest annotation_enum_size list
MaxEnums == 3

\* std::numeric_limits<uint64_t>::max()
UINT64_MAX == 2^UintBits - 1

\* the enum sizes a settings file gives: none, one, small ones, and sizes
\* whose products pass the word
EnumSizes == {0, 1, 2, 5, 8}

RECURSIVE NumAnnotationCombinationsFrom(_, _, _)
\* the loop from the k-th enum size on, n being the product so far
NumAnnotationCombinationsFrom(sizes, k, n) ==
    IF k > Len(sizes) THEN n
    ELSE LET m  == n
             n1 == (n * sizes[k]) % (2^UintBits)
         IN  IF n1 < m THEN UINT64_MAX
             ELSE NumAnnotationCombinationsFrom(sizes, k + 1, n1)

NumAnnotationCombinations(s) ==
    NumAnnotationCombinationsFrom(s.annotation_enum_size, 1, 1)

\* Settings::DeserializeSettings: the enum sizes of the settings file are
\* pushed onto annotation_enum_size
SettingsDeserialize ==
    /\ \E n \in 0..MaxEnums : \E sizes \in [1..n -> EnumSizes] :
          settings' = [annotation_enum_size |-> sizes, called |-> FALSE, ret |-> 0]
    /\ UNCHANGED <<histVars, glVars, vkVars>>

SettingsNumAnnotationCombinations ==
    /\ settings' = [settings EXCEPT !.called = TRUE,
                                    !.ret = NumAnnotationCombinations(settings)]
    /\ UNCHANGED <<histVars, glVars, vkVars>>

InitSettings == NoHistogram /\ NoSwappyGL /\ NoSwappyVk /\ NoSettings

NextSettings == SettingsDeserialize \/ SettingsNumAnnotationCombinations

SpecSettings == InitSettings /\ [][NextSettings]_vars

RECURSIVE Product(_)
\* the product of the elements of a sequence, in the integers
Product(seq) == IF seq = <<>> THEN 1 ELSE Head(seq) * Product(Tail(seq))

\* C30: NumAnnotationCombinations returns the exact product of the enum sizes
\* whenever the product fits the unsigned word (0 when a size is 0, 1 for the
\* empty list) and the greatest value of the word whenever it does not, for
\* every list of enum sizes.
C30_ExactProductOrMax ==
    settings.called
        => LET product == Product(settings.annotation_enum_size)
           IN  settings.ret = IF product <= UINT64_MAX THEN product ELSE UINT64_MAX

====
